---- MODULE Spec2Model ----
(***************************************************************************)
(* Competitor UI Analyzer (src/app.py): the score extractor                *)
(* (score_with_gemini), the section partitioner                            *)
(* (split_comparison_sections) and the "Run Analysis" handler with the     *)
(* per-session result cache (st.session_state).                            *)
(*                                                                         *)
(* A text is a sequence of symbols; each symbol is a literal piece of the  *)
(* text (one character, or one whole word or phrase that the alphabet      *)
(* treats as indivisible), so concatenating the symbols gives the Python   *)
(* string and every text of the model is a real input.                     *)
(***************************************************************************)
EXTENDS Integers, Sequences, FiniteSets, TLC

\* pc       where the script run stands ("idle" between user interactions)
\* session  st.session_state: a dict, empty until a run stores
\* writer   for each key of session, the number of the run that wrote it
\*          (kept beside the cache to tell the runs apart; the code has no such field)
\* run      the locals of the "Run Analysis" handler, and the run's number
\* view     what tab4 and tab3 last rendered
\* ext      the extractor taken alone: its response text and what it returned
\* part     the partitioner taken alone: its lines, loop index, current, sections
VARIABLES pc, session, writer, run, view, ext, part

vars == <<pc, session, writer, run, view, ext, part>>

(***************************************************************************)
(* Bounds of the model.                                                    *)
(***************************************************************************)
\* every text of at most this many symbols is an input of the extractor
MaxScoreLen == 4
\* every text of at most this many symbols is an input of the partitioner
MaxTextLen == 4
\* analysis runs per session
MaxRuns == 3

Q == "\""
NL == "\n"

Min(S) == CHOOSE x \in S : \A y \in S : x <= y
Max(S) == CHOOSE x \in S : \A y \in S : x >= y

\* all sequences over S of length at most n
SeqsUpTo(S, n) == UNION {[1..k -> S] : k \in 0..n}

CharAt(s, i) == IF i >= 1 /\ i <= Len(s) THEN s[i] ELSE ""

\* Python's `sub in s` at the granularity of symbols
Contains(s, sub) ==
    \E i \in 1..(Len(s) - Len(sub) + 1) : SubSeq(s, i, i + Len(sub) - 1) = sub

(***************************************************************************)
(* JSON values, as json.loads builds them: int, str, dict.  A dict is the  *)
(* set of its <<key, value>> items.  Every value has the same four fields  *)
(* so that values of different kinds can be compared.                      *)
(***************************************************************************)
JNone   == [t |-> "none", n |-> 0, s |-> <<>>, o |-> {}]
JNum(n) == [t |-> "int", n |-> n, s |-> <<>>, o |-> {}]
JStr(s) == [t |-> "str", n |-> 0, s |-> s, o |-> {}]
JObj(o) == [t |-> "dict", n |-> 0, s |-> <<>>, o |-> o]

\* Python's `key in d` for a dict d
HasKey(d, key) == d.t = "dict" /\ \E it \in d.o : it[1] = key

\* dict(pairs): a later pair with the same key replaces the earlier one
DictOfPairs(pairs) ==
    {pairs[i] : i \in {i \in 1..Len(pairs) :
                         \A j \in (i + 1)..Len(pairs) : pairs[j][1] # pairs[i][1]}}

(***************************************************************************)
(* json.loads on a text over the symbols { } " : , 1 space and letters.    *)
(* A parse step returns [ok, pos, val, msg]: the value and the position    *)
(* after it, or the message of the JSONDecodeError raised (its line and    *)
(* column are left out).                                                   *)
(***************************************************************************)
Ok(pos, val) == [ok |-> TRUE, pos |-> pos, val |-> val, msg |-> ""]
Fail(msg)    == [ok |-> FALSE, pos |-> 0, val |-> JNone, msg |-> msg]

RECURSIVE SkipWs(_, _)
SkipWs(s, i) == IF CharAt(s, i) = " " THEN SkipWs(s, i + 1) ELSE i

\* i is the position after the opening quote
RECURSIVE ScanString(_, _, _)
ScanString(s, i, acc) ==
    IF i > Len(s) THEN Fail("Unterminated string starting at")
    ELSE IF s[i] = Q THEN Ok(i + 1, JStr(acc))
    ELSE ScanString(s, i + 1, Append(acc, s[i]))

RECURSIVE ScanNumber(_, _, _)
ScanNumber(s, i, acc) ==
    IF CharAt(s, i) = "1" THEN ScanNumber(s, i + 1, acc * 10 + 1)
    ELSE Ok(i, JNum(acc))

RECURSIVE ScanOnce(_, _)
RECURSIVE ParseObject(_, _)
RECURSIVE ParseMembers(_, _, _)

ScanOnce(s, i) ==
    IF CharAt(s, i) = Q THEN ScanString(s, i + 1, <<>>)
    ELSE IF CharAt(s, i) = "{" THEN ParseObject(s, i + 1)
    ELSE IF CharAt(s, i) = "1" THEN ScanNumber(s, i, 0)
    ELSE Fail("Expecting value")

\* end is the position after the opening brace
ParseObject(s, end) ==
    LET e1 == SkipWs(s, end)
    IN  IF CharAt(s, e1) = "}" THEN Ok(e1 + 1, JObj({}))
        ELSE IF CharAt(s, e1) # Q
             THEN Fail("Expecting property name enclosed in double quotes")
        ELSE ParseMembers(s, e1 + 1, <<>>)

\* end is the position after the opening quote of the next key
ParseMembers(s, end, pairs) ==
    LET k == ScanString(s, end, <<>>)
    IN  IF ~k.ok THEN k
        ELSE LET e2 == SkipWs(s, k.pos)
             IN  IF CharAt(s, e2) # ":" THEN Fail("Expecting ':' delimiter")
                 ELSE LET v == ScanOnce(s, SkipWs(s, e2 + 1))
                      IN  IF ~v.ok THEN v
                          ELSE LET e4 == SkipWs(s, v.pos)
                                   pairs2 == Append(pairs, <<k.val.s, v.val>>)
                               IN  IF CharAt(s, e4) = "}"
                                   THEN Ok(e4 + 1, JObj(DictOfPairs(pairs2)))
                                   ELSE IF CharAt(s, e4) # ","
                                   THEN Fail("Expecting ',' delimiter")
                                   ELSE LET e5 == SkipWs(s, e4 + 1)
                                        IN  IF CharAt(s, e5) # Q
                                            THEN Fail("Expecting property name enclosed in double quotes")
                                            ELSE ParseMembers(s, e5 + 1, pairs2)

\* JSONDecoder.raw_decode without the end check of decode()
JsonLoadsLenient(s) == ScanOnce(s, SkipWs(s, 1))

\* json.loads: one value, then only whitespace up to the end of the text
JsonLoads(s) ==
    LET r == ScanOnce(s, SkipWs(s, 1))
    IN  IF ~r.ok THEN r
        ELSE IF SkipWs(s, r.pos) # Len(s) + 1 THEN Fail("Extra data")
        ELSE r

(***************************************************************************)
(* re.search(r'\{[\s\S]+\}', response): the leftmost '{' from which a      *)
(* match exists, then greedily as far as the last '}'; [\s\S]+ needs at    *)
(* least one character between the braces.                                 *)
(***************************************************************************)
NoMatch == [found |-> FALSE, span |-> <<>>]

ReSearch(s) ==
    LET starts == {i \in 1..Len(s) :
                      s[i] = "{" /\ \E j \in (i + 2)..Len(s) : s[j] = "}"}
    IN  IF starts = {} THEN NoMatch
        ELSE LET i == Min(starts)
                 j == Max({j \in (i + 2)..Len(s) : s[j] = "}"})
             IN  [found |-> TRUE, span |-> SubSeq(s, i, j)]

(***************************************************************************)
(* score_with_gemini after the call: search, parse, and the two error      *)
(* dicts.  exc is the message of an exception that leaves the function     *)
(* ("" when it returns).                                                   *)
(***************************************************************************)
NotFoundMsg == <<"JSON block not found.">>
ParseErrPrefix == "Could not parse scores: "

ErrorDict(msg) == JObj({<<(<<"error">>), JStr(msg)>>})

Returned(scores, raw) == [scores |-> scores, raw |-> raw, exc |-> ""]
Raised(msg) == [scores |-> JNone, raw |-> <<>>, exc |-> msg]

\* without the except clause
ExtractScoresNoExcept(response) ==
    LET m == ReSearch(response)
    IN  IF m.found
        THEN LET p == JsonLoads(m.span)
             IN  IF p.ok THEN Returned(p.val, response) ELSE Raised(p.msg)
        ELSE Returned(ErrorDict(NotFoundMsg), response)

\* returning the matched span in place of the response
ExtractScoresSpanAsRaw(response) ==
    LET m == ReSearch(response)
    IN  IF m.found
        THEN LET p == JsonLoads(m.span)
             IN  IF p.ok THEN Returned(p.val, m.span)
                 ELSE Returned(ErrorDict(<<ParseErrPrefix, p.msg>>), response)
        ELSE Returned(ErrorDict(NotFoundMsg), response)

ExtractScores(response) ==
    LET m == ReSearch(response)
    IN  IF m.found
        THEN LET p == JsonLoads(m.span)
             IN  IF p.ok THEN Returned(p.val, response)
                 ELSE Returned(ErrorDict(<<ParseErrPrefix, p.msg>>), response)
        ELSE Returned(ErrorDict(NotFoundMsg), response)

\* tab4: `if "error" in score_data` shows st.error, else the table
ScorecardShowsError(scores) == HasKey(scores, <<"error">>)

(***************************************************************************)
(* Inputs of the extractor.                                                *)
(***************************************************************************)
ScoreSyms == {"{", "}", Q, ":", ",", "1", " ", "a", "error"}

Str(k) == <<Q>> \o k \o <<Q>>
Member(k, v) == Str(k) \o <<":">> \o v
Braced(m) == <<"{">> \o m \o <<"}">>

KeySet == {<<"a">>, <<"error">>}
Scalars == {<<"1">>, <<"1", "1">>, Str(<<"a">>)}
EmptyObjects == {<<"{", "}">>, <<"{", " ", "}">>}
OneMember == {Member(k, v) : k \in KeySet, v \in Scalars}
FlatObjects == {Braced(m) : m \in OneMember}
    \cup {Braced(m1 \o <<",", " ">> \o m2) : m1 \in OneMember, m2 \in OneMember}
NestedObjects ==
    {Braced(Member(k, o)) : k \in KeySet, o \in EmptyObjects \cup FlatObjects}
    \cup {Braced(Member(<<"a">>, Braced(m1)) \o <<",">> \o Member(<<"error">>, Braced(m2))) :
             m1 \in OneMember, m2 \in OneMember}

\* well-formed JSON object texts with no brace inside a string
JsonObjects == EmptyObjects \cup FlatObjects \cup NestedObjects

\* prose around the object, without braces
Affixes == {<<>>, <<"a", " ">>, <<" ", "a">>}

\* a text with one symbol lost, or cut short
Damaged(j) ==
    {SubSeq(j, 1, i - 1) \o SubSeq(j, i + 1, Len(j)) : i \in 1..Len(j)}
    \cup {SubSeq(j, 1, i) : i \in 1..Len(j)}

Wrapped == {[p |-> p, j |-> j, s |-> s] : p \in Affixes, j \in JsonObjects, s \in Affixes}

ExtractTexts ==
    SeqsUpTo(ScoreSyms, MaxScoreLen)
    \cup {w.p \o w.j \o w.s : w \in Wrapped}
    \cup UNION {Damaged(j) : j \in FlatObjects \cup EmptyObjects}
    \cup {j \o <<" ", "a", "}">> : j \in FlatObjects}

(***************************************************************************)
(* split_comparison_sections.                                              *)
(***************************************************************************)
PartSyms == {NL, " ", "x", "Similarities", "differences", "suggestions", "recommendations"}

\* str.lower() of one symbol
Lower(c) == IF c = "Similarities" THEN "similarities" ELSE c
LowerText(s) == [i \in 1..Len(s) |-> Lower(s[i])]

\* str.strip()
RECURSIVE LStrip(_)
LStrip(s) == IF Len(s) > 0 /\ s[1] = " " THEN LStrip(Tail(s)) ELSE s
RECURSIVE RStrip(_)
RStrip(s) == IF Len(s) > 0 /\ s[Len(s)] = " " THEN RStrip(SubSeq(s, 1, Len(s) - 1)) ELSE s
Strip(s) == RStrip(LStrip(s))

\* the lines of a text as the specification counts them: a final newline
\* ends the last line and starts no further one
RECURSIVE SplitKeepNone(_)
SplitKeepNone(s) ==
    IF s = <<>> THEN <<>>
    ELSE IF \A i \in 1..Len(s) : s[i] # NL THEN <<s>>
    ELSE LET i == Min({k \in 1..Len(s) : s[k] = NL})
         IN  <<SubSeq(s, 1, i - 1)>> \o SplitKeepNone(SubSeq(s, i + 1, Len(s)))

\* response_text.split("\n"): one more piece than there are newlines
RECURSIVE SplitLines(_)
SplitLines(s) ==
    IF \A i \in 1..Len(s) : s[i] # NL THEN <<s>>
    ELSE LET i == Min({k \in 1..Len(s) : s[k] = NL})
         IN  <<SubSeq(s, 1, i - 1)>> \o SplitLines(SubSeq(s, i + 1, Len(s)))

NoBucket == "None"
Buckets == {"Similarities", "Differences", "Suggestions"}
EmptySections == [Similarities |-> <<>>, Differences |-> <<>>, Suggestions |-> <<>>]

StartCurrentFirstBucket == "Similarities"
\* current = None
StartCurrent == NoBucket

IsSim(lower) == Contains(lower, <<"similarities">>)
IsDiff(lower) == Contains(lower, <<"differences">>)
IsSugg(lower) == Contains(lower, <<"suggestions">>) \/ Contains(lower, <<"recommendations">>)

\* the branches tested in another order
HeaderOfDiffFirst(lower) ==
    IF IsDiff(lower) THEN "Differences"
    ELSE IF IsSim(lower) THEN "Similarities"
    ELSE IF IsSugg(lower) THEN "Suggestions"
    ELSE NoBucket

\* the if/elif chain: the bucket a line selects, None for a content line
HeaderOf(lower) ==
    IF IsSim(lower) THEN "Similarities"
    ELSE IF IsDiff(lower) THEN "Differences"
    ELSE IF IsSugg(lower) THEN "Suggestions"
    ELSE NoBucket

\* one iteration of the loop on st = [current, sections]
SectionStep(st, line) ==
    LET lower == LowerText(Strip(line))
        h == HeaderOf(lower)
    IN  IF h # NoBucket THEN [st EXCEPT !.current = h]
        ELSE IF st.current # NoBucket
             THEN [st EXCEPT !.sections[st.current] = @ \o Strip(line) \o <<NL>>]
        ELSE st

RECURSIVE FoldLines(_, _, _)
FoldLines(st, lines, i) ==
    IF i > Len(lines) THEN st ELSE FoldLines(SectionStep(st, lines[i]), lines, i + 1)

split_comparison_sections(text) ==
    FoldLines([current |-> StartCurrent, sections |-> EmptySections],
              SplitLines(text), 1).sections

\* the example of the specification, in the symbols of the model
ExampleText == <<"Similarities", NL, "x", NL, "differences", NL, "x", " ", "x", NL>>

PartitionTexts == SeqsUpTo(PartSyms, MaxTextLen) \cup {ExampleText}

(***************************************************************************)
(* State at rest (the parts a specification does not use stay here).       *)
(***************************************************************************)
ExtIdle == [response |-> <<>>, done |-> FALSE, out |-> Returned(JNone, <<>>)]
PartIdle == [text |-> <<>>, lines |-> <<>>, idx |-> 1, current |-> NoBucket,
             sections |-> EmptySections, done |-> FALSE]
NoSession == [k \in {} |-> 0]
NoView == [tab4 |-> "none", tab3 |-> "none", structured |-> EmptySections]
NoRun == [no |-> 0, url1 |-> "", url2 |-> "", s1 |-> "none", s2 |-> "none",
          status1 |-> 0, status2 |-> 0, comparison |-> <<>>, scores |-> JNone,
          raw |-> <<>>, stored |-> FALSE, message |-> "none"]

(***************************************************************************)
(* The extractor on its own: any response text, then score_with_gemini's   *)
(* lines after the call.                                                   *)
(***************************************************************************)
InitExtract ==
    /\ ext \in {[ExtIdle EXCEPT !.response = t] : t \in ExtractTexts}
    /\ part = PartIdle
    /\ pc = "extract"
    /\ session = NoSession
    /\ writer = NoSession
    /\ run = NoRun
    /\ view = NoView

ApplyExtract ==
    /\ pc = "extract"
    /\ ~ext.done
    /\ ext' = [ext EXCEPT !.done = TRUE, !.out = ExtractScores(ext.response)]
    /\ UNCHANGED <<pc, session, writer, run, view, part>>

NextExtract == ApplyExtract

SpecExtract == InitExtract /\ [][NextExtract]_vars

(***************************************************************************)
(* The partitioner on its own, one loop iteration per step.                *)
(***************************************************************************)
InitPartition ==
    /\ part \in {[PartIdle EXCEPT !.text = t, !.lines = SplitLines(t),
                                  !.current = StartCurrent] : t \in PartitionTexts}
    /\ ext = ExtIdle
    /\ pc = "partition"
    /\ session = NoSession
    /\ writer = NoSession
    /\ run = NoRun
    /\ view = NoView

PartitionLine ==
    /\ pc = "partition"
    /\ part.idx <= Len(part.lines)
    /\ LET st == SectionStep([current |-> part.current, sections |-> part.sections],
                             part.lines[part.idx])
       IN  part' = [part EXCEPT !.idx = @ + 1, !.current = st.current,
                                !.sections = st.sections]
    /\ UNCHANGED <<pc, session, writer, run, view, ext>>

PartitionReturn ==
    /\ pc = "partition"
    /\ part.idx > Len(part.lines)
    /\ ~part.done
    /\ part' = [part EXCEPT !.done = TRUE]
    /\ UNCHANGED <<pc, session, writer, run, view, ext>>

NextPartition == PartitionLine \/ PartitionReturn

SpecPartition == InitPartition /\ [][NextPartition]_vars

(***************************************************************************)
(* The session: one script run per user interaction.  "Run Analysis"       *)
(* walks fetch -> compare -> score -> decide; every run ends by rendering  *)
(* the tabs from st.session_state.                                         *)
(***************************************************************************)
UrlA == "https://www.alpha.com"
UrlB == "https://beta.org"
Urls == {"", UrlA, UrlB}

\* extract_site_name: netloc without "www.", up to the first dot, capitalized
SiteName(url) == IF url = UrlA THEN "Alpha" ELSE IF url = UrlB THEN "Beta" ELSE ""

\* extract_ui_summary_from_html: the six counts, or {"error": str(e)}
Summary(url) ==
    [k \in {"Navbars", "Forms", "Buttons/Links", "Inputs", "Headers (H1-H6)", "Sections"} |->
        IF url = UrlA THEN 1 ELSE 2]
FetchError == [k \in {"error"} |-> "fetch failed"]
FetchOutcomes == {"page", "exception"}
FetchResult(url, outcome) == IF outcome = "page" THEN Summary(url) ELSE FetchError

\* what the generation service does with one POST
RateLimitPhrase == "API rate limit reached"
RateLimitText == <<RateLimitPhrase, ". Please try again later.">>
GeminiErrorPrefix == "Error from Gemini: "

ComparisonTexts == {ExampleText, <<"x">>}
ScoreTexts == {<<"a", " ">> \o Braced(Member(<<"a">>, Braced(Member(<<"a">>, <<"1">>)))),
               <<"a">>,
               Braced(<<"a">>)}
ErrorBodies == {<<>>, Braced(Member(<<"error">>, <<"1">>))}

Outcomes(okTexts) ==
    {[kind |-> "response", status |-> 200, body |-> t] : t \in okTexts}
    \cup {[kind |-> "response", status |-> 429, body |-> <<>>]}
    \cup {[kind |-> "response", status |-> 500, body |-> b] : b \in ErrorBodies}
    \cup {[kind |-> "exception", status |-> 0, body |-> <<>>]}

\* call_gemini: the completion, or an error text returned as if it were one;
\* requests.post or response.json() may raise
call_gemini(o) ==
    IF o.kind = "exception" THEN [raised |-> TRUE, text |-> <<>>]
    ELSE IF o.status = 200 THEN [raised |-> FALSE, text |-> o.body]
    ELSE IF o.status = 429 THEN [raised |-> FALSE, text |-> RateLimitText]
    ELSE [raised |-> FALSE,
          text |-> <<GeminiErrorPrefix, ToString(o.status), " - ">> \o o.body]

CacheKeys == {"s1", "s2", "name1", "name2", "comparison", "scores", "raw_score_response"}

\* the dict literal without its last entry
RunResultsWithoutRaw(r) ==
    [k \in CacheKeys \ {"raw_score_response"} |->
        CASE k = "s1" -> r.s1
          [] k = "s2" -> r.s2
          [] k = "name1" -> SiteName(r.url1)
          [] k = "name2" -> SiteName(r.url2)
          [] k = "comparison" -> r.comparison
          [] k = "scores" -> r.scores]

\* the dict literal handed to st.session_state.update
RunResults(r) ==
    [k \in CacheKeys |->
        CASE k = "s1" -> r.s1
          [] k = "s2" -> r.s2
          [] k = "name1" -> SiteName(r.url1)
          [] k = "name2" -> SiteName(r.url2)
          [] k = "comparison" -> r.comparison
          [] k = "scores" -> r.scores
          [] k = "raw_score_response" -> r.raw]

\* dict.update
Update(d, new) ==
    [k \in DOMAIN d \cup DOMAIN new |-> IF k \in DOMAIN new THEN new[k] ELSE d[k]]

\* the guard of the else branch that stores: no rate-limit text in either reply
PassesErrorCheck(r) ==
    /\ ~Contains(r.comparison, <<RateLimitPhrase>>)
    /\ ~Contains(r.raw, <<RateLimitPhrase>>)

Init ==
    /\ pc = "idle"
    /\ session = NoSession
    /\ writer = NoSession
    /\ run = NoRun
    /\ view = NoView
    /\ ext = ExtIdle
    /\ part = PartIdle

\* the button: analyze is True in this script run
ClickRun ==
    /\ pc = "idle"
    /\ run.no < MaxRuns
    /\ \E u1 \in Urls, u2 \in Urls :
         /\ run' = [NoRun EXCEPT !.no = run.no + 1, !.url1 = u1, !.url2 = u2,
                                 !.message = IF u1 = "" \/ u2 = ""
                                             THEN "Please enter both URLs to compare."
                                             ELSE "none"]
         /\ pc' = IF u1 = "" \/ u2 = "" THEN "render" ELSE "fetch"
    /\ UNCHANGED <<session, writer, view, ext, part>>

\* any other interaction: the script runs with analyze False
Rerun ==
    /\ pc = "idle"
    /\ pc' = "render"
    /\ UNCHANGED <<session, writer, run, view, ext, part>>

FetchSummaries ==
    /\ pc = "fetch"
    /\ \E o1 \in FetchOutcomes, o2 \in FetchOutcomes :
         LET s1 == FetchResult(run.url1, o1)
             s2 == FetchResult(run.url2, o2)
             bad == "error" \in DOMAIN s1 \/ "error" \in DOMAIN s2
         IN  /\ run' = [run EXCEPT !.s1 = s1, !.s2 = s2,
                                   !.message = IF "error" \in DOMAIN s1
                                               THEN "Error fetching site A"
                                               ELSE IF "error" \in DOMAIN s2
                                               THEN "Error fetching site B"
                                               ELSE "none"]
             /\ pc' = IF bad THEN "render" ELSE "compare"
    /\ UNCHANGED <<session, writer, view, ext, part>>

\* compare_with_gemini
CompareCall ==
    /\ pc = "compare"
    /\ \E o \in Outcomes(ComparisonTexts) :
         LET c == call_gemini(o)
         IN  /\ run' = [run EXCEPT !.status1 = IF c.raised THEN -1 ELSE o.status,
                                   !.comparison = c.text,
                                   !.message = IF c.raised THEN "An error occurred"
                                               ELSE "none"]
             /\ pc' = IF c.raised THEN "render" ELSE "score"
    /\ UNCHANGED <<session, writer, view, ext, part>>

\* score_with_gemini
ScoreCall ==
    /\ pc = "score"
    /\ \E o \in Outcomes(ScoreTexts) :
         LET c == call_gemini(o)
             out == ExtractScores(c.text)
         IN  IF c.raised \/ out.exc # ""
             THEN /\ run' = [run EXCEPT !.status2 = IF c.raised THEN -1 ELSE o.status,
                                        !.message = "An error occurred"]
                  /\ pc' = "render"
             ELSE /\ run' = [run EXCEPT !.status2 = o.status, !.scores = out.scores,
                                        !.raw = out.raw]
                  /\ pc' = "decide"
    /\ UNCHANGED <<session, writer, view, ext, part>>

\* the rate-limit check, then st.session_state.update
Decide ==
    /\ pc = "decide"
    /\ IF PassesErrorCheck(run)
       THEN /\ session' = Update(session, RunResults(run))
            /\ writer' = Update(writer, [k \in DOMAIN RunResults(run) |-> run.no])
            /\ run' = [run EXCEPT !.stored = TRUE,
                                  !.message = "Analysis complete. View all tabs."]
       ELSE /\ run' = [run EXCEPT !.message = "API request failed. Please try again."]
            /\ UNCHANGED <<session, writer>>
    /\ pc' = "render"
    /\ UNCHANGED <<view, ext, part>>

\* tab4 and tab3 read the cache
RenderTabs ==
    /\ pc = "render"
    /\ view' = [tab4 |-> IF "scores" \notin DOMAIN session THEN "info"
                         ELSE IF ScorecardShowsError(session["scores"]) THEN "error"
                         ELSE "table",
                tab3 |-> IF "comparison" \in DOMAIN session THEN "sections" ELSE "info",
                structured |-> IF "comparison" \in DOMAIN session
                               THEN split_comparison_sections(session["comparison"])
                               ELSE EmptySections]
    /\ pc' = "idle"
    /\ UNCHANGED <<session, writer, run, ext, part>>

Next == ClickRun \/ Rerun \/ FetchSummaries \/ CompareCall \/ ScoreCall \/ Decide \/ RenderTabs

Spec == Init /\ [][Next]_vars

(***************************************************************************)
(* Properties of the run handler and the cache (Spec).                     *)
(***************************************************************************)
\* a call of this run came back with a non-200 status, or raised
UpstreamError(r) == r.status1 \notin {0, 200} \/ r.status2 \notin {0, 200}

\* lines 165-172 ran on the error text that call_gemini returned
ExtractorRanOnErrorText(r) == r.status2 \notin {0, 200, -1} /\ r.scores # JNone

\* tab3 partitioned the error text this run stored as its comparison
PartitionerRanOnErrorText ==
    /\ run.stored
    /\ run.status1 \notin {0, 200}
    /\ pc = "idle"
    /\ view.tab3 = "sections"

\* C1: when a text-generation call of a run ends in an upstream error
\* (exception, HTTP 429, any other non-200), the run stops before the core
\* stages: the extractor and the partitioner are not applied to the error
\* text and nothing of that run is stored in the session cache.
C1_UpstreamErrorShortCircuits ==
    UpstreamError(run) =>
        /\ ~ExtractorRanOnErrorText(run)
        /\ ~run.stored
        /\ ~PartitionerRanOnErrorText

RunFinished == pc \in {"render", "idle"} /\ run.no > 0

\* C2 as stated: once a run has finished, every cached entry is that run's,
\* and the cache never holds entries of two runs.
C2_EveryRunOverwritesCache ==
    /\ RunFinished => \A k \in DOMAIN writer : writer[k] = run.no
    /\ \A j \in DOMAIN writer, k \in DOMAIN writer : writer[j] = writer[k]

CacheOfOneRun ==
    /\ DOMAIN session \in {{}, CacheKeys}
    /\ DOMAIN writer = DOMAIN session
    /\ \A j \in DOMAIN writer, k \in DOMAIN writer : writer[j] = writer[k]

StoredRunIsCached ==
    (RunFinished /\ run.stored) =>
        /\ DOMAIN session = CacheKeys
        /\ \A k \in DOMAIN writer : writer[k] = run.no
        /\ session["s1"] = run.s1
        /\ session["s2"] = run.s2
        /\ session["name1"] = SiteName(run.url1)
        /\ session["name2"] = SiteName(run.url2)
        /\ session["comparison"] = run.comparison
        /\ session["scores"] = run.scores
        /\ session["raw_score_response"] = run.raw

\* C2 (amended): a run that reaches st.session_state.update replaces all
\* seven entries together, so the cache is empty or holds the seven entries
\* of one single run, the last one that stored; a run that ends without
\* storing (missing URL, fetch error, exception, rate-limit text) leaves the
\* cache exactly as it was.
C2_StoringRunOverwritesCache ==
    /\ [](CacheOfOneRun /\ StoredRunIsCached)
    /\ [][(session' # session \/ writer' # writer) =>
            (pc = "decide" /\ run'.stored /\ ~run.stored)]_vars

\* a second run has replaced what the first one cached
C2_Witness ==
    /\ pc = "idle"
    /\ run.no = 2
    /\ run.stored
    /\ DOMAIN session = CacheKeys
    /\ \A k \in DOMAIN writer : writer[k] = 2
    /\ session["name1"] = "Beta"

(***************************************************************************)
(* Properties of the extractor (SpecExtract).                              *)
(***************************************************************************)
Positions(t, c) == {i \in 1..Len(t) : t[i] = c}

\* the text from the first '{' to the last '}'
OuterSpan(t) ==
    IF Positions(t, "{") = {} \/ Positions(t, "}") = {} THEN <<>>
    ELSE SubSeq(t, Min(Positions(t, "{")), Max(Positions(t, "}")))

\* some '{' has a '}' after it
HasBraceSpan(t) == \E i \in Positions(t, "{"), j \in Positions(t, "}") : i < j

IsParseError(v) ==
    \E msg \in {"Unterminated string starting at", "Expecting value",
                "Expecting property name enclosed in double quotes",
                "Expecting ':' delimiter", "Expecting ',' delimiter", "Extra data"} :
        v = ErrorDict(<<ParseErrPrefix, msg>>)

IsNotFound(v) == v = ErrorDict(NotFoundMsg)

\* the span is one JSON value from its first symbol to its last
ParsesWhole(span) ==
    LET r == ScanOnce(span, 1) IN r.ok /\ r.pos = Len(span) + 1

\* C3: for a well-formed JSON object J (the empty object included) with no
\* brace inside a string, and a prefix and suffix without braces,
\* the extractor succeeds on prefix + J + suffix and returns what parsing J
\* alone gives.
C3_RoundTrip ==
    (ext.done /\ OuterSpan(ext.response) \in JsonObjects) =>
        /\ ext.out.exc = ""
        /\ JsonLoads(OuterSpan(ext.response)).ok
        /\ ext.out.scores = JsonLoads(OuterSpan(ext.response)).val

\* C4: the extractor answers "JSON block not found" exactly when the text
\* has no span from a '{' to a later '}'.
C4_NotFoundIffNoSpan ==
    ext.done => (IsNotFound(ext.out.scores) <=> ~HasBraceSpan(ext.response))

\* C5: the second component returned is the response text itself, in all
\* three outcomes.
C5_RawTextUnchanged ==
    ext.done => (ext.out.exc = "" /\ ext.out.raw = ext.response)

\* a parsed object that sat inside prose
C5_Witness ==
    /\ ext.done
    /\ ReSearch(ext.response).found
    /\ ReSearch(ext.response).span # ext.response
    /\ ext.out.scores.t = "dict"
    /\ ~HasKey(ext.out.scores, <<"error">>)
    /\ ext.out.raw = ext.response

\* C6: when a span is found, the result is the value of the whole span if
\* the whole span is one JSON value, and otherwise the error "Could not
\* parse scores: ..." and no mapping; no exception leaves the function.
C6_ParseFailureIsError ==
    ext.done =>
        /\ ext.out.exc = ""
        /\ ReSearch(ext.response).found =>
              LET span == ReSearch(ext.response).span
              IN  IF ParsesWhole(span)
                  THEN ext.out.scores = ScanOnce(span, 1).val
                  ELSE IsParseError(ext.out.scores)

\* prose after the object ended up inside the span
C6_Witness ==
    /\ ext.done
    /\ \E j \in FlatObjects : ext.response = j \o <<" ", "a", "}">>
    /\ ScanOnce(ext.response, 1).ok
    /\ ext.out.scores = ErrorDict(<<ParseErrPrefix, "Extra data">>)

ExtractionFailed(t) ==
    ~ReSearch(t).found \/ ~JsonLoads(ReSearch(t).span).ok

\* C10: the returned scores hold the top-level key "error", and the
\* scorecard tab shows an extraction error, exactly when extraction failed.
C10_ErrorKeyOnlyOnFailure ==
    ext.done => (ScorecardShowsError(ext.out.scores) <=> ExtractionFailed(ext.response))

(***************************************************************************)
(* Properties of the partitioner (SpecPartition).                          *)
(***************************************************************************)
Keywords == {"similarities", "differences", "suggestions", "recommendations"}
HasWord(line, w) == \E i \in 1..Len(line) : Lower(line[i]) = w
HasKeyword(line) == \E w \in Keywords : HasWord(line, w)

\* the bucket of the last header line before line i, None if there is none
BucketAt(lines, i) ==
    LET hs == {k \in 1..(i - 1) : HasKeyword(lines[k])}
    IN  IF hs = {} THEN NoBucket ELSE HeaderOf(LowerText(Strip(lines[Max(hs)])))

\* the trimmed content lines under bucket b, each with one newline
RECURSIVE ContentUnder(_, _, _)
ContentUnder(lines, b, i) ==
    IF i > Len(lines) THEN <<>>
    ELSE (IF ~HasKeyword(lines[i]) /\ BucketAt(lines, i) = b
          THEN Strip(lines[i]) \o <<NL>> ELSE <<>>)
         \o ContentUnder(lines, b, i + 1)

NewlineTerminated(t) == Len(t) > 0 /\ t[Len(t)] = NL

\* C7: for a text whose lines each end with a newline, every bucket is
\* exactly the trimmed content lines under its header, in order, each with
\* one newline; the final newline adds nothing.
C7_BucketsAreContentLines ==
    (part.done /\ NewlineTerminated(part.text)) =>
        \A b \in Buckets :
            part.sections[b] = ContentUnder(SplitKeepNone(part.text), b, 1)

\* C8: nothing is appended while no processed line held a keyword, so a
\* text without any keyword gives three empty buckets; the loop can always
\* take its next step.
C8_DropsBeforeFirstHeader ==
    /\ (\A k \in 1..(part.idx - 1) : ~HasKeyword(part.lines[k]))
          => part.sections = EmptySections
    /\ (pc = "partition" /\ ~part.done) => ENABLED NextPartition

\* a content line before the first header is dropped, one after it is kept
C8_Witness ==
    /\ part.done
    /\ Len(part.lines) >= 3
    /\ Strip(part.lines[1]) = <<"x">>
    /\ HasKeyword(part.lines[2])
    /\ part.sections # EmptySections
    /\ \A b \in Buckets : Len(part.sections[b]) <= 2

\* C9: the line just processed selects Similarities if it holds
\* "similarities", else Differences if it holds "differences", else
\* Suggestions if it holds "suggestions" or "recommendations", wherever the
\* words stand and whatever the bucket was before.
C9_HeaderPriority ==
    part.idx > 1 =>
        LET line == part.lines[part.idx - 1]
        IN  /\ HasWord(line, "similarities") => part.current = "Similarities"
            /\ (~HasWord(line, "similarities") /\ HasWord(line, "differences"))
                  => part.current = "Differences"
            /\ (~HasWord(line, "similarities") /\ ~HasWord(line, "differences")
                /\ (HasWord(line, "suggestions") \/ HasWord(line, "recommendations")))
                  => part.current = "Suggestions"

\* "differences" stands before "similarities" on a line that follows a
\* Suggestions header
C9_Witness ==
    /\ part.idx = 3
    /\ HasWord(part.lines[1], "suggestions")
    /\ part.lines[2] = <<"differences", "Similarities">>
    /\ part.current = "Similarities"

====
